---------------------------- MODULE Spec2Model ----------------------------
(***************************************************************************)
(* streamlit-page-analytics: the instrumentation controller                *)
(* (StreamlitPageAnalytics), the function interceptor (WrappedWidget), the *)
(* attribute extractor (WidgetAttributeExtractor), the event logger        *)
(* (UserEventLogger) and the record serialisation (UserEvent.to_dict,      *)
(* clean_values), together with the host they run in: the two namespaces   *)
(* whose functions are patched, the host's element registry, its render    *)
(* state and the logging sink.                                             *)
(***************************************************************************)
EXTENDS Integers, Sequences, FiniteSets, TLC

(***************************************************************************)
(* The state.                                                              *)
(*   st             the host's two namespaces: container -> name -> the    *)
(*                  function now installed under that name                 *)
(*   analytics      the controllers (StreamlitPageAnalytics instances)     *)
(*   elements       the host's element registry: element key -> the        *)
(*                  callbacks registered by the last creation call         *)
(*   session_state  the host's render state: element key -> value          *)
(*   log            the records handed to the logging sink, in order       *)
(*   raised         the exception the last operation raised, or None       *)
(*   requested      per controller: the keyword arguments its constructor  *)
(*                  was called with                                        *)
(*   phase, calls   per controller: where it is between construction,      *)
(*                  start_tracking and stop_tracking, and the              *)
(*                  start_tracking calls made                              *)
(*   invoked        the number of user actions the host reported to a      *)
(*                  wrapped callback                                       *)
(*   script         the application: its one element-creation call         *)
(*   probe          one element-creation call and what the interceptor     *)
(*                  forwarded to the underlying function                   *)
(***************************************************************************)
VARIABLES st, analytics, elements, session_state, log, raised,
          requested, phase, calls, invoked, script, probe

vars == <<st, analytics, elements, session_state, log, raised,
          requested, phase, calls, invoked, script, probe>>

(***************************************************************************)
(* Bounds of the model.                                                    *)
(***************************************************************************)
MaxArgs == 3
MaxLog == 2
MaxCalls == 3
MaxStarts == 1

(***************************************************************************)
(* Python's None, and the literals of the code.                            *)
(***************************************************************************)
None == "<None>"

REDACTED == "[REDACTED]"

_DEFAULT_ELEMENT_ID_PREFIX == "pg-trk-"

WRAPPED_MODULE == "streamlit_page_analytics.widgets.wrapped_widget"

HOST_MODULE == "streamlit"

_TEXT_INPUT_WIDGET_TYPES == {"text_input", "text_area"}

UserEventAction == {"start_tracking", "click", "change", "submit", "other"}

(***************************************************************************)
(* config.MAPPINGS: one recipe per element type.  A field of a recipe is   *)
(* a WidgetAttribute (index, name); extraction_attributes is a dict whose  *)
(* insertion order is label, key, action.                                  *)
(***************************************************************************)
WidgetAttribute(i, n) == [index |-> i, name |-> n]

WidgetMapping(w, k, ai, an, t) ==
  [st_widget_name |-> w,
   extraction_attributes |-> [label |-> WidgetAttribute(0, "label"),
                              key |-> WidgetAttribute(k, "key"),
                              action |-> WidgetAttribute(ai, an)],
   action_type |-> t]

AttributeOrder == <<"label", "key", "action">>

MAPPINGS ==
  << WidgetMapping("button", 1, 3, "on_click", "click"),
     WidgetMapping("checkbox", 2, 4, "on_change", "change"),
     WidgetMapping("radio", 4, 6, "on_change", "change"),
     WidgetMapping("selectbox", 4, 6, "on_change", "change"),
     WidgetMapping("multiselect", 4, 6, "on_change", "change"),
     WidgetMapping("slider", 6, 8, "on_change", "change"),
     WidgetMapping("select_slider", 4, 6, "on_change", "change"),
     WidgetMapping("text_input", 3, 7, "on_change", "change"),
     WidgetMapping("number_input", 6, 8, "on_change", "change"),
     WidgetMapping("text_area", 4, 6, "on_change", "change"),
     WidgetMapping("date_input", 4, 6, "on_change", "change"),
     WidgetMapping("time_input", 2, 4, "on_change", "change"),
     WidgetMapping("file_uploader", 3, 5, "on_change", "change"),
     WidgetMapping("color_picker", 2, 4, "on_change", "change") >>

WidgetNames == {MAPPINGS[i].st_widget_name : i \in DOMAIN MAPPINGS}

MappingOf(w) == CHOOSE m \in {MAPPINGS[i] : i \in DOMAIN MAPPINGS} : m.st_widget_name = w

(***************************************************************************)
(* Python lists and dicts.  A list is a sequence (Python index i is        *)
(* position i + 1); a dict is a function whose domain is its key set.      *)
(***************************************************************************)
ListDel(s, i) == SubSeq(s, 1, i) \o SubSeq(s, i + 2, Len(s))

DictDel(d, k) == [x \in (DOMAIN d) \ {k} |-> d[x]]

DictSet(d, k, v) == [x \in (DOMAIN d) \cup {k} |-> IF x = k THEN v ELSE d[x]]

EmptyDict == [x \in {} |-> None]

(***************************************************************************)
(* utils.copy_list / utils.copy_dict: a copy that shares no structure with *)
(* its argument.  The model's values are immutable, so the copy is the     *)
(* same value; what matters is that later deletions on the copy leave the  *)
(* caller's args and kwargs alone, which holds of every operator below.    *)
(***************************************************************************)
copy_list(l) == l

copy_dict(d) == d

(***************************************************************************)
(* utils.get_crc32_hash: the CRC-32 of the label as a decimal string, over *)
(* the labels of the model (zlib.crc32 of "A" is 3554254475, of "B"        *)
(* 1255198513, of "" 0).                                                   *)
(***************************************************************************)
Labels == {"A", "B"}

get_crc32_hash(label) ==
  CASE label = "A" -> "3554254475"
    [] label = "B" -> "1255198513"
    [] label = "" -> "0"
    [] OTHER -> "crc32(" \o label \o ")"

(***************************************************************************)
(* WidgetAttributeExtractor.check_and_get_attribute: the keyword wins;     *)
(* else the positional argument at the declared index of the list as it is *)
(* now (earlier deletions have shifted it), unless that value is None;     *)
(* else None.  Returns the value and the two collections after the         *)
(* deletion.                                                               *)
(***************************************************************************)
(* Variant: the keyword is read but not removed.                           *)
check_and_get_attribute_keeps_keyword(attribute, arguments, kwarguments) ==
  IF attribute.name \in DOMAIN kwarguments
  THEN [ret |-> kwarguments[attribute.name],
        arguments |-> arguments,
        kwarguments |-> kwarguments]
  ELSE IF /\ Len(arguments) > 0
          /\ Len(arguments) > attribute.index
          /\ arguments[attribute.index + 1] # None
       THEN [ret |-> arguments[attribute.index + 1],
             arguments |-> ListDel(arguments, attribute.index),
             kwarguments |-> kwarguments]
       ELSE [ret |-> None, arguments |-> arguments, kwarguments |-> kwarguments]

check_and_get_attribute(attribute, arguments, kwarguments) ==
  IF attribute.name \in DOMAIN kwarguments
  THEN [ret |-> kwarguments[attribute.name],
        arguments |-> arguments,
        kwarguments |-> DictDel(kwarguments, attribute.name)]
  ELSE IF /\ Len(arguments) > 0
          /\ Len(arguments) > attribute.index
          /\ arguments[attribute.index + 1] # None
       THEN [ret |-> arguments[attribute.index + 1],
             arguments |-> ListDel(arguments, attribute.index),
             kwarguments |-> kwarguments]
       ELSE [ret |-> None, arguments |-> arguments, kwarguments |-> kwarguments]

(***************************************************************************)
(* WidgetAttributeExtractor._extract_all_attributes: the fields of the     *)
(* recipe in declaration order, each on the collections the previous one   *)
(* left.  acc carries the collections and the attributes extracted so far. *)
(***************************************************************************)
RECURSIVE ExtractFrom(_, _, _)
ExtractFrom(extraction_attributes, n, acc) ==
  IF n > Len(AttributeOrder) THEN acc
  ELSE LET attr_name == AttributeOrder[n] IN
       IF attr_name \notin DOMAIN extraction_attributes
       THEN ExtractFrom(extraction_attributes, n + 1, acc)
       ELSE LET r == check_and_get_attribute(extraction_attributes[attr_name],
                                             acc.arguments, acc.kwarguments)
            IN ExtractFrom(extraction_attributes, n + 1,
                           [arguments |-> r.arguments,
                            kwarguments |-> r.kwarguments,
                            extracted |-> DictSet(acc.extracted, attr_name, r.ret)])

_extract_all_attributes(extraction_attributes, arguments, kwarguments) ==
  ExtractFrom(extraction_attributes, 1,
              [arguments |-> copy_list(arguments),
               kwarguments |-> copy_dict(kwarguments),
               extracted |-> EmptyDict])

(***************************************************************************)
(* models.WidgetValues: the value pair of an element, both None at first.  *)
(***************************************************************************)
WidgetValues(current) == [current |-> current, previous |-> None]

(***************************************************************************)
(* Widget.update_value: the old current value becomes previous.            *)
(***************************************************************************)
update_value(widget, new_value) ==
  [widget EXCEPT !.values = [current |-> new_value,
                             previous |-> widget.values.current]]

(***************************************************************************)
(* Python truthiness of an extracted key: None and "" are falsy.           *)
(***************************************************************************)
Falsy(v) == v \in {None, ""}

(***************************************************************************)
(* utils.clean_values on the values of a dict of scalars, and the          *)
(* emptiness test _check_if_empty_or_none on a scalar and on a collection  *)
(* (list, tuple or dict).                                                  *)
(***************************************************************************)
_check_if_empty_or_none(value) == value \in {None, "", "[]", "{}"}

EmptyCollection(coll) == DOMAIN coll = {}

CleanScalarDict(d) == [k \in {x \in DOMAIN d : ~_check_if_empty_or_none(d[x])} |-> d[k]]

(***************************************************************************)
(* WidgetAttributeExtractor.extract_widget: the element id is the          *)
(* extracted key if it is truthy, else the prefix followed by the checksum *)
(* of the label; the Widget is created with no current value (no recipe    *)
(* declares a "value" field).                                              *)
(***************************************************************************)
(* Variants of the identifier rule: the key concatenated in front of the   *)
(* prefix, (key or "") + prefix + hash; and an identifier that counts the  *)
(* records written so far.                                                 *)
extract_widget_concat(widget_type, extraction_attributes, arguments, kwarguments, extra) ==
  LET x == _extract_all_attributes(extraction_attributes, arguments, kwarguments)
      key == x.extracted["key"]
  IN [widget |-> [id |-> (IF Falsy(key) THEN "" ELSE key)
                           \o _DEFAULT_ELEMENT_ID_PREFIX
                           \o get_crc32_hash(x.extracted["label"]),
                  type |-> widget_type,
                  label |-> x.extracted["label"],
                  values |-> WidgetValues(None),
                  extra |-> extra],
      original_action_callback_fn |-> x.extracted["action"],
      unextracted_args |-> x.arguments,
      unextracted_kwargs |-> x.kwarguments]

extract_widget_counted(widget_type, extraction_attributes, arguments, kwarguments, extra) ==
  LET x == _extract_all_attributes(extraction_attributes, arguments, kwarguments)
      key == x.extracted["key"]
  IN [widget |-> [id |-> IF ~Falsy(key) THEN key
                         ELSE _DEFAULT_ELEMENT_ID_PREFIX
                                \o get_crc32_hash(x.extracted["label"])
                                \o (IF log = <<>> THEN "" ELSE "-1"),
                  type |-> widget_type,
                  label |-> x.extracted["label"],
                  values |-> WidgetValues(None),
                  extra |-> extra],
      original_action_callback_fn |-> x.extracted["action"],
      unextracted_args |-> x.arguments,
      unextracted_kwargs |-> x.kwarguments]

extract_widget(widget_type, extraction_attributes, arguments, kwarguments, extra) ==
  LET x == _extract_all_attributes(extraction_attributes, arguments, kwarguments)
      extracted_attributes == x.extracted
      widget_id == IF ~Falsy(extracted_attributes["key"])
                   THEN extracted_attributes["key"]
                   ELSE _DEFAULT_ELEMENT_ID_PREFIX
                          \o get_crc32_hash(extracted_attributes["label"])
  IN [widget |-> [id |-> widget_id,
                  type |-> widget_type,
                  label |-> extracted_attributes["label"],
                  values |-> WidgetValues(IF "value" \in DOMAIN extracted_attributes
                                          THEN extracted_attributes["value"]
                                          ELSE None),
                  extra |-> extra],
      original_action_callback_fn |-> IF "action" \in DOMAIN extracted_attributes
                                      THEN extracted_attributes["action"]
                                      ELSE None,
      unextracted_args |-> x.arguments,
      unextracted_kwargs |-> x.kwarguments]

(***************************************************************************)
(* UserEventLogger.__init__: the masking flags default to False.           *)
(***************************************************************************)
UserEventLogger(widget, action_type, original_element_callback, logger_fn, session_state_fn, mask_text_input_values, mask_all_values) ==
  [_widget |-> widget,
   _action_type |-> action_type,
   _original_element_callback |-> original_element_callback,
   _logger_fn |-> logger_fn,
   _session_state_fn |-> session_state_fn,
   _mask_text_input_values |-> mask_text_input_values,
   _mask_all_values |-> mask_all_values]

(***************************************************************************)
(* WrappedWidget.__init__: the interceptor of one host function.  The      *)
(* constructor declares exactly these four parameters.                     *)
(***************************************************************************)
WrappedWidgetParams == {"widget_mapping", "widget_fn", "event_logger_fn", "session_state_fn"}

WrappedWidget(widget_mapping, widget_fn, event_logger_fn, session_state_fn) ==
  [_widget_mapping |-> widget_mapping,
   _original_widget_function |-> widget_fn,
   _event_logger_fn |-> event_logger_fn,
   _session_state_fn |-> session_state_fn]

(***************************************************************************)
(* WrappedWidget.wrapped_widget_fn: extraction, the argument list rebuilt  *)
(* with the label first, the key forced to the element id, the callback    *)
(* keyword replaced by the logger's logging_callback_fn (the logger is     *)
(* built without masking flags), and the call of the underlying function.  *)
(* Returns the call made and the logger installed as the callback;         *)
(* invocations lists the calls of _original_widget_function in order, and  *)
(* returns names the invocation whose result is the return value (0: the   *)
(* function returns None).                                                 *)
(***************************************************************************)
LoggerCallback == "UserEventLogger.logging_callback_fn"

(* Variant: the result of the underlying function is dropped.             *)
wrapped_widget_fn_no_return(self, args, kwargs) ==
  LET extraction_attributes == self._widget_mapping.extraction_attributes
      extracted_widget ==
        extract_widget(self._widget_mapping.st_widget_name, extraction_attributes,
                       args, kwargs,
                       [args |-> copy_list(args),
                        kwargs |-> CleanScalarDict(copy_dict(kwargs))])
      args_to_use == <<extracted_widget.widget.label>> \o extracted_widget.unextracted_args
      keyed == DictSet(extracted_widget.unextracted_kwargs, "key",
                       extracted_widget.widget.id)
      has_action == "action" \in DOMAIN extraction_attributes
      user_event_logger ==
        UserEventLogger(extracted_widget.widget,
                        self._widget_mapping.action_type,
                        extracted_widget.original_action_callback_fn,
                        self._event_logger_fn,
                        self._session_state_fn,
                        FALSE, FALSE)
      kwargs_to_use == IF has_action
                       THEN DictSet(keyed, extraction_attributes["action"].name,
                                    LoggerCallback)
                       ELSE keyed
  IN [fn |-> self._original_widget_function,
      args |-> args_to_use,
      kwargs |-> kwargs_to_use,
      widget |-> extracted_widget.widget,
      has_logger |-> has_action,
      logger |-> user_event_logger,
      invocations |-> <<[fn |-> self._original_widget_function,
                         args |-> args_to_use, kwargs |-> kwargs_to_use]>>,
      returns |-> 0]

(* Variant: the key forced is the checksum of the label alone.            *)
wrapped_widget_fn_own_key(self, args, kwargs) ==
  LET extraction_attributes == self._widget_mapping.extraction_attributes
      extracted_widget ==
        extract_widget(self._widget_mapping.st_widget_name, extraction_attributes,
                       args, kwargs,
                       [args |-> copy_list(args),
                        kwargs |-> CleanScalarDict(copy_dict(kwargs))])
      args_to_use == <<extracted_widget.widget.label>> \o extracted_widget.unextracted_args
      keyed == DictSet(extracted_widget.unextracted_kwargs, "key",
                       get_crc32_hash(extracted_widget.widget.label))
      has_action == "action" \in DOMAIN extraction_attributes
      user_event_logger ==
        UserEventLogger(extracted_widget.widget,
                        self._widget_mapping.action_type,
                        extracted_widget.original_action_callback_fn,
                        self._event_logger_fn,
                        self._session_state_fn,
                        FALSE, FALSE)
      kwargs_to_use == IF has_action
                       THEN DictSet(keyed, extraction_attributes["action"].name,
                                    LoggerCallback)
                       ELSE keyed
  IN [fn |-> self._original_widget_function,
      args |-> args_to_use,
      kwargs |-> kwargs_to_use,
      widget |-> extracted_widget.widget,
      has_logger |-> has_action,
      logger |-> user_event_logger,
      invocations |-> <<[fn |-> self._original_widget_function,
                         args |-> args_to_use, kwargs |-> kwargs_to_use]>>,
      returns |-> 1]

wrapped_widget_fn(self, args, kwargs) ==
  LET extraction_attributes == self._widget_mapping.extraction_attributes
      extracted_widget ==
        extract_widget(self._widget_mapping.st_widget_name, extraction_attributes,
                       args, kwargs,
                       [args |-> copy_list(args),
                        kwargs |-> CleanScalarDict(copy_dict(kwargs))])
      args_to_use == <<extracted_widget.widget.label>> \o extracted_widget.unextracted_args
      keyed == DictSet(extracted_widget.unextracted_kwargs, "key",
                       extracted_widget.widget.id)
      has_action == "action" \in DOMAIN extraction_attributes
      user_event_logger ==
        UserEventLogger(extracted_widget.widget,
                        self._widget_mapping.action_type,
                        extracted_widget.original_action_callback_fn,
                        self._event_logger_fn,
                        self._session_state_fn,
                        FALSE, FALSE)
      kwargs_to_use == IF has_action
                       THEN DictSet(keyed, extraction_attributes["action"].name,
                                    LoggerCallback)
                       ELSE keyed
  IN [fn |-> self._original_widget_function,
      args |-> args_to_use,
      kwargs |-> kwargs_to_use,
      widget |-> extracted_widget.widget,
      has_logger |-> has_action,
      logger |-> user_event_logger,
      invocations |-> <<[fn |-> self._original_widget_function,
                         args |-> args_to_use, kwargs |-> kwargs_to_use]>>,
      returns |-> 1]

Controllers == {"c1", "c2"}

(* The controller the single-application specifications drive.             *)
Primary == {"c1"}

Containers == <<"st", "st.sidebar">>

ContainerNames == {Containers[i] : i \in DOMAIN Containers}

(***************************************************************************)
(* A function object of the host: the original function of a namespace     *)
(* (owners empty) or an interceptor's wrapped_widget_fn; owners lists the  *)
(* controllers whose log_event the interceptors around the original were   *)
(* built with, outermost first.                                            *)
(***************************************************************************)
OriginalFn(container, name) == [container |-> container, name |-> name, owners |-> <<>>]

ModuleOf(fn) == IF fn.owners = <<>> THEN HOST_MODULE ELSE WRAPPED_MODULE

OriginalSt == [c \in ContainerNames |-> [n \in WidgetNames |-> OriginalFn(c, n)]]

(***************************************************************************)
(* Element-creation calls of the model: the label first or by keyword, up  *)
(* to MaxArgs further positional arguments, and keyword arguments for the  *)
(* key, the callback and one parameter no recipe declares.                 *)
(***************************************************************************)
ArgValues == {None, "a", "b"}

KeyValues == {None, "", "k"}

CallbackValues == {None, "dev_cb"}

SeqsUpTo(S, n) == UNION {[1..k -> S] : k \in 0..n}

Absent == "<absent>"

(* The dict of the keywords that were supplied.                            *)
MkKwargs(pairs) ==
  [k \in {p[1] : p \in {q \in pairs : q[2] # Absent}} |->
      (CHOOSE p \in pairs : p[1] = k)[2]]

(* A call the host itself would accept: the label is bound once, and no    *)
(* declared field is bound both positionally and by keyword.               *)
ValidCall(m, args, kwargs) ==
  /\ \/ args = <<>> /\ "label" \in DOMAIN kwargs
     \/ args # <<>> /\ args[1] \in Labels /\ "label" \notin DOMAIN kwargs
  /\ \A a \in DOMAIN m.extraction_attributes :
        LET f == m.extraction_attributes[a]
        IN ~(Len(args) > f.index /\ f.name \in DOMAIN kwargs)

NoScript == [via |-> "none"]

NoProbe == [phase |-> "none"]

(***************************************************************************)
(* StreamlitPageAnalytics.__init__: the keyword-only parameters the        *)
(* constructor declares besides name, session_id and user_id, and the      *)
(* fields it sets.  A keyword it does not declare is a TypeError and no    *)
(* controller is built.                                                    *)
(***************************************************************************)
InitParams == {"log_level", "logger", "mask_text_input_values"}

Unconstructed ==
  [constructed |-> FALSE, _original_mappings |-> EmptyDict, _session_id |-> None,
   _user_id |-> None, _mask_text_input_values |-> FALSE]

StreamlitPageAnalytics(session_id, user_id, kwargs) ==
  [constructed |-> TRUE,
   _original_mappings |-> EmptyDict,
   _session_id |-> session_id,
   _user_id |-> user_id,
   _mask_text_input_values |-> IF "mask_text_input_values" \in DOMAIN kwargs
                               THEN kwargs["mask_text_input_values"]
                               ELSE FALSE]

SessionOf(c) == "session-" \o c

UserOf(c) == "user-" \o c

InitCommon ==
  /\ st = OriginalSt
  /\ elements = EmptyDict
  /\ session_state = EmptyDict
  /\ log = <<>>
  /\ raised = None
  /\ requested = [c \in Controllers |-> EmptyDict]
  /\ phase = [c \in Controllers |-> [at |-> "new", starts |-> 0]]
  /\ calls = [c \in Controllers |-> <<>>]
  /\ invoked = 0

(***************************************************************************)
(* One element-creation call through an interceptor built over the         *)
(* original function of the primary namespace.                             *)
(***************************************************************************)
InitCall ==
  /\ InitCommon
  /\ analytics = [c \in Controllers |-> Unconstructed]
  /\ script = NoScript
  /\ \E m \in {MAPPINGS[i] : i \in DOMAIN MAPPINGS},
        args \in SeqsUpTo(ArgValues \cup Labels, MaxArgs + 1),
        lbl \in Labels \cup {Absent},
        key \in KeyValues \cup {Absent},
        cb \in CallbackValues \cup {Absent},
        other \in {"d", Absent} :
       LET kwargs == MkKwargs({<<"label", lbl>>, <<"key", key>>,
                               <<m.extraction_attributes["action"].name, cb>>,
                               <<"disabled", other>>})
       IN /\ \A i \in 2..Len(args) : args[i] \in ArgValues
          /\ ValidCall(m, args, kwargs)
          /\ probe = [phase |-> "called", mapping |-> m,
                      args |-> args, kwargs |-> kwargs]

(***************************************************************************)
(* The host's element-creation function: it binds the arguments to its     *)
(* signature (the positions the recipes declare are the positions of the   *)
(* host's parameters; a parameter bound twice is a TypeError) and          *)
(* registers the element under its key, or under an id of its own when no  *)
(* key is given.                                                           *)
(***************************************************************************)
HostBound(m, a, args, kwargs) ==
  LET f == m.extraction_attributes[a] IN
  IF f.name \in DOMAIN kwargs THEN kwargs[f.name]
  ELSE IF Len(args) > f.index THEN args[f.index + 1] ELSE None

HostConflict(m, args, kwargs) ==
  \E a \in DOMAIN m.extraction_attributes :
     LET f == m.extraction_attributes[a]
     IN f.name \in DOMAIN kwargs /\ Len(args) > f.index

HostKey(m, args, kwargs) ==
  LET key == HostBound(m, "key", args, kwargs) IN
  IF Falsy(key) THEN "$$ID-" \o HostBound(m, "label", args, kwargs) ELSE key

(* What the host's original function gives for a call: its result, or the  *)
(* TypeError of a parameter bound twice.                                   *)
HostResult(m, args, kwargs) ==
  IF HostConflict(m, args, kwargs)
  THEN [raised |-> "TypeError", value |-> None]
  ELSE [raised |-> None, value |-> "element-" \o HostKey(m, args, kwargs)]

Forward ==
  /\ probe.phase = "called"
  /\ LET self == WrappedWidget(probe.mapping,
                               OriginalFn("st", probe.mapping.st_widget_name),
                               "c1", "session_state")
         r == wrapped_widget_fn(self, probe.args, probe.kwargs)
     IN probe' = [phase |-> "forwarded", mapping |-> probe.mapping,
                  args |-> probe.args, kwargs |-> probe.kwargs,
                  fn |-> r.fn, fwd_args |-> r.args, fwd_kwargs |-> r.kwargs,
                  widget |-> r.widget, has_logger |-> r.has_logger,
                  logger |-> r.logger,
                  invocations |-> r.invocations,
                  returned |-> IF r.returns = 0 THEN [raised |-> None, value |-> None]
                               ELSE HostResult(probe.mapping,
                                               r.invocations[r.returns].args,
                                               r.invocations[r.returns].kwargs)]
  /\ UNCHANGED <<st, analytics, elements, session_state, log, raised,
                 requested, phase, calls, invoked, script>>

(***************************************************************************)
(* StreamlitPageAnalytics._wrap_st_functions.  The loop visits every       *)
(* recipe on the primary and then the sidebar namespace.  One visit: skip  *)
(* a name the namespace lacks; skip a function that already is an          *)
(* interceptor; else build the WrappedWidget, record the original and      *)
(* replace the namespace attribute.  The WrappedWidget is built with the   *)
(* keyword arguments of WrapCallKwargs; a keyword WrappedWidget.__init__   *)
(* does not declare is a TypeError that ends the loop and start_tracking.  *)
(* s carries the namespaces, this controller's _original_mappings and the  *)
(* exception raised.                                                       *)
(***************************************************************************)
WrapCallKwargs ==
  {"widget_mapping", "widget_fn", "event_logger_fn", "session_state_fn",
   "mask_text_input_values"}

hasattr(table, container, name) == name \in DOMAIN table[container]

Interceptor(c, fn) == [container |-> fn.container, name |-> fn.name,
                       owners |-> <<c>> \o fn.owners]

(* A variant of the visit whose WrappedWidget call passes only declared    *)
(* keywords and which has no "don't rewrap" test.                          *)
WrapOne_rewrap(c, s, mapping, container) ==
  LET name == mapping.st_widget_name IN
  IF ~hasattr(s.st, container, name) THEN s
  ELSE LET original_element_fn == s.st[container][name] IN
       [st |-> [s.st EXCEPT ![container][name] = Interceptor(c, original_element_fn)],
        mappings |-> DictSet(s.mappings, <<container, name>>, original_element_fn),
        raised |-> s.raised]

WrapOne(c, s, mapping, container) ==
  LET name == mapping.st_widget_name IN
  IF ~hasattr(s.st, container, name) THEN s
  ELSE LET original_element_fn == s.st[container][name] IN
       IF ModuleOf(original_element_fn) = WRAPPED_MODULE THEN s
       ELSE IF ~(WrapCallKwargs \subseteq WrappedWidgetParams)
            THEN [s EXCEPT !.raised = "TypeError"]
            ELSE [st |-> [s.st EXCEPT ![container][name] =
                                         Interceptor(c, original_element_fn)],
                  mappings |-> DictSet(s.mappings, <<container, name>>,
                                       original_element_fn),
                  raised |-> s.raised]

RECURSIVE WrapFrom(_, _, _)
WrapFrom(c, n, s) ==
  IF n >= Len(MAPPINGS) * Len(Containers) \/ s.raised # None THEN s
  ELSE WrapFrom(c, n + 1,
                WrapOne(c, s, MAPPINGS[(n \div Len(Containers)) + 1],
                        Containers[(n % Len(Containers)) + 1]))

_wrap_st_functions(c, table, mappings) ==
  WrapFrom(c, 0, [st |-> table, mappings |-> mappings, raised |-> None])

(***************************************************************************)
(* StreamlitPageAnalytics.unwrap_st_functions: every recorded original is  *)
(* put back under its (container, name), then the record is cleared.       *)
(***************************************************************************)
(* Variant: every recipe-named attribute is set back to the host's         *)
(* function, recorded or not.                                              *)
unwrap_st_functions_reset(table, mappings) ==
  [cn \in DOMAIN table |-> [n \in DOMAIN table[cn] |-> OriginalFn(cn, n)]]

unwrap_st_functions(table, mappings) ==
  [cn \in DOMAIN table |->
     [n \in DOMAIN table[cn] |->
        IF <<cn, n>> \in DOMAIN mappings THEN mappings[<<cn, n>>] ELSE table[cn][n]]]

(***************************************************************************)
(* UserEvent.to_dict followed by clean_values, as log_event applies them.  *)
(* clean_values drops a key whose value is None, "", "[]", "{}" or an      *)
(* empty list, tuple or dict, and then cleans the values it kept; it tests *)
(* a nested dict for emptiness before cleaning it, so a dict that becomes  *)
(* empty by cleaning stays.  Widget.to_dict is dataclasses.asdict: the     *)
(* values dict always has both keys before cleaning.                       *)
(***************************************************************************)
CleanExtra(x) ==
  [k \in {n \in DOMAIN x : ~EmptyCollection(x[n])} |->
     IF k = "kwargs" THEN CleanScalarDict(x[k]) ELSE x[k]]

CleanWidget(w) ==
  [k \in {n \in {"id", "type", "label"} : ~_check_if_empty_or_none(w[n])}
           \cup {n \in {"values", "extra"} : ~EmptyCollection(w[n])} |->
     CASE k = "values" -> CleanScalarDict(w.values)
       [] k = "extra" -> CleanExtra(w.extra)
       [] OTHER -> w[k]]

to_dict_cleaned(event) ==
  [k \in {n \in {"session_id", "user_id", "page_name", "action"} :
            ~_check_if_empty_or_none(event[n])}
           \cup {"widget"} \cup {n \in {"extra"} : ~EmptyCollection(event[n])} |->
     CASE k = "widget" -> CleanWidget(event.widget)
       [] k = "extra" -> CleanExtra(event.extra)
       [] OTHER -> event[k]]

(***************************************************************************)
(* StreamlitPageAnalytics.log_event on a UserEvent: the event gets the     *)
(* controller's session_id and user_id as they are now, and the cleaned    *)
(* dict goes to the sink.                                                  *)
(***************************************************************************)
UserEvent(action, widget, extra) ==
  [session_id |-> None, user_id |-> None, page_name |-> None,
   action |-> action, widget |-> widget, extra |-> extra]

(* Variant: the user id filled from the session id.                        *)
log_event_session_as_user(self, partial_event) ==
  to_dict_cleaned([partial_event EXCEPT !.session_id = self._session_id,
                                        !.user_id = self._session_id])

log_event(self, partial_event) ==
  to_dict_cleaned([partial_event EXCEPT !.session_id = self._session_id,
                                        !.user_id = self._user_id])

(***************************************************************************)
(* UserEventLogger._extract_and_update_widget_value: for a CHANGE element  *)
(* the value under the element id in the render state; a missing id is a   *)
(* KeyError and a state that cannot be subscripted is a TypeError, both    *)
(* absorbed with a warning; a None value is ignored; else the value, or    *)
(* the redaction marker if a masking flag applies, becomes the current     *)
(* value.  NotAMapping stands for what session_state_fn returns when it is *)
(* not a mapping.                                                          *)
(***************************************************************************)
NotAMapping == [x \in {"<not-a-mapping>"} |-> None]

(* Variant: a failed lookup answered with a default value.                 *)
_extract_and_update_widget_value_default(self, state) ==
  IF self._action_type = "change" /\ self._session_state_fn # None
  THEN IF state = NotAMapping \/ self._widget.id \notin DOMAIN state
       THEN update_value(self._widget, "unknown")
       ELSE LET widget_value == state[self._widget.id] IN
            IF widget_value = None THEN self._widget
            ELSE IF \/ self._mask_all_values
                    \/ /\ self._mask_text_input_values
                       /\ self._widget.type \in _TEXT_INPUT_WIDGET_TYPES
                 THEN update_value(self._widget, REDACTED)
                 ELSE update_value(self._widget, widget_value)
  ELSE self._widget

_extract_and_update_widget_value(self, state) ==
  IF self._action_type = "change" /\ self._session_state_fn # None
  THEN IF state = NotAMapping \/ self._widget.id \notin DOMAIN state THEN self._widget
       ELSE LET widget_value == state[self._widget.id] IN
            IF widget_value = None THEN self._widget
            ELSE IF \/ self._mask_all_values
                    \/ /\ self._mask_text_input_values
                       /\ self._widget.type \in _TEXT_INPUT_WIDGET_TYPES
                 THEN update_value(self._widget, REDACTED)
                 ELSE update_value(self._widget, widget_value)
  ELSE self._widget

(***************************************************************************)
(* UserEventLogger.logging_callback_fn, one invocation with (args, kwargs) *)
(* under the render state: the element after the value update, the event   *)
(* handed to _logger_fn (if any), and the call of the original callback    *)
(* (if any), in the order the code performs them.                          *)
(***************************************************************************)
(* Variants: the original callback called before the event is handed to   *)
(* _logger_fn; and the test of _logger_fn inverted.                        *)
logging_callback_fn_callee_first(self, args, kwargs, state) ==
  LET widget == _extract_and_update_widget_value(self, state)
      logged == IF self._logger_fn # None
                THEN <<[op |-> "log", target |-> self._logger_fn,
                        event |-> UserEvent(self._action_type, widget,
                                            [args |-> args, kwargs |-> kwargs])]>>
                ELSE <<>>
      called == IF self._original_element_callback # None
                THEN <<[op |-> "call", target |-> self._original_element_callback,
                        args |-> args, kwargs |-> kwargs]>>
                ELSE <<>>
  IN [self |-> [self EXCEPT !._widget = widget],
      effects |-> called \o logged,
      returns_callee |-> self._original_element_callback # None]

logging_callback_fn_unlogged(self, args, kwargs, state) ==
  LET widget == _extract_and_update_widget_value(self, state)
      called == IF self._original_element_callback # None
                THEN <<[op |-> "call", target |-> self._original_element_callback,
                        args |-> args, kwargs |-> kwargs]>>
                ELSE <<>>
  IN [self |-> [self EXCEPT !._widget = widget],
      effects |-> called,
      returns_callee |-> self._original_element_callback # None]

logging_callback_fn(self, args, kwargs, state) ==
  LET widget == _extract_and_update_widget_value(self, state)
      logged == IF self._logger_fn # None
                THEN <<[op |-> "log", target |-> self._logger_fn,
                        event |-> UserEvent(self._action_type, widget,
                                            [args |-> args, kwargs |-> kwargs])]>>
                ELSE <<>>
      called == IF self._original_element_callback # None
                THEN <<[op |-> "call", target |-> self._original_element_callback,
                        args |-> args, kwargs |-> kwargs]>>
                ELSE <<>>
  IN [self |-> [self EXCEPT !._widget = widget],
      effects |-> logged \o called,
      returns_callee |-> self._original_element_callback # None]

(***************************************************************************)
(* A call of a function object: each interceptor around the original runs  *)
(* wrapped_widget_fn and calls the function it was built over with the     *)
(* rebuilt arguments; loggers collects the UserEventLogger each one built. *)
(* The state reader every interceptor is given reads the host's render     *)
(* state.                                                                  *)
(***************************************************************************)
SessionStateFn == "st.session_state.to_dict"

RECURSIVE CallThrough(_, _, _, _)
CallThrough(fn, args, kwargs, loggers) ==
  IF fn.owners = <<>>
  THEN [fn |-> fn, args |-> args, kwargs |-> kwargs, loggers |-> loggers]
  ELSE LET inner == [fn EXCEPT !.owners = Tail(fn.owners)]
           r == wrapped_widget_fn(WrappedWidget(MappingOf(fn.name), inner,
                                                Head(fn.owners), SessionStateFn),
                                  args, kwargs)
       IN CallThrough(inner, r.args, r.kwargs,
                      IF r.has_logger THEN Append(loggers, r.logger) ELSE loggers)

(***************************************************************************)
(* The developer's callback returns a value of its own.                    *)
(***************************************************************************)
DevResult(cb) == "result-of-" \o cb

(***************************************************************************)
(* The host reports a user action: it calls the callback registered for    *)
(* the element.  When that is a logger's logging_callback_fn, the logger   *)
(* runs and calls its original callback, which is the previous logger of   *)
(* the chain or the developer's callback.  acc carries the loggers (their  *)
(* elements are updated in place) and the effects in order.                *)
(***************************************************************************)
RECURSIVE RunChain(_, _, _, _, _)
RunChain(i, args, kwargs, state, acc) ==
  LET r == logging_callback_fn(acc.loggers[i], args, kwargs, state)
      next == [loggers |-> [acc.loggers EXCEPT ![i] = r.self],
               effects |-> acc.effects \o r.effects,
               ret |-> acc.ret]
      callee == acc.loggers[i]._original_element_callback
  IN IF callee = LoggerCallback /\ i > 1
     THEN RunChain(i - 1, args, kwargs, state, next)
     ELSE [next EXCEPT !.ret = IF callee = None THEN None ELSE DevResult(callee)]

(* What reaches the sink: the record log_event writes, with the controller *)
(* it went through and the value the render state held for the element.    *)
RECURSIVE Emitted(_, _, _)
Emitted(effects, ctl, state) ==
  IF effects = <<>> THEN <<>>
  ELSE LET e == Head(effects) IN
       (IF e.op = "log"
        THEN <<[via |-> e.target,
                entered |-> IF e.event.widget.id \in DOMAIN state
                            THEN state[e.event.widget.id] ELSE None,
                record |-> log_event(ctl[e.target], e.event)]>>
        ELSE <<>>) \o Emitted(Tail(effects), ctl, state)

RECURSIVE Trace(_)
Trace(effects) ==
  IF effects = <<>> THEN <<>>
  ELSE LET e == Head(effects) IN
       <<IF e.op = "log"
         THEN [op |-> "log", target |-> e.target,
               args |-> e.event.extra.args, kwargs |-> e.event.extra.kwargs]
         ELSE [op |-> "call", target |-> e.target,
               args |-> e.args, kwargs |-> e.kwargs]>> \o Trace(Tail(effects))

(***************************************************************************)
(* StreamlitPageAnalytics.start_tracking(self): the method declares no     *)
(* parameter besides self, so a call that passes a page name is a          *)
(* TypeError before the body runs; the body is _wrap_st_functions.         *)
(***************************************************************************)
StartTrackingParams == {}

start_tracking(c, self, table, page) ==
  IF ~((IF page = Absent THEN {} ELSE {"page_name"}) \subseteq StartTrackingParams)
  THEN [st |-> table, mappings |-> self._original_mappings, raised |-> "TypeError"]
  ELSE _wrap_st_functions(c, table, self._original_mappings)

(***************************************************************************)
(* The inputs of the model.                                                *)
(***************************************************************************)
CtorKwargs ==
  {EmptyDict,
   [mask_text_input_values |-> TRUE],
   [mask_all_values |-> TRUE],
   [mask_text_input_values |-> TRUE, mask_all_values |-> TRUE]}

PageArgs == {Absent, "", "Home", "Settings"}

RenderTypes == {"button", "text_input", "selectbox"}

Values == {None, "a", "b"}

CallbackCalls ==
  {[args |-> <<>>, kwargs |-> EmptyDict],
   [args |-> <<"x">>, kwargs |-> [n |-> "y"]]}

(***************************************************************************)
(* The operations.                                                         *)
(***************************************************************************)
Construct(c, kwargs) ==
  /\ phase[c].at = "new"
  /\ requested' = [requested EXCEPT ![c] = kwargs]
  /\ IF DOMAIN kwargs \subseteq InitParams
     THEN /\ analytics' = [analytics EXCEPT
                             ![c] = StreamlitPageAnalytics(SessionOf(c), UserOf(c), kwargs)]
          /\ phase' = [phase EXCEPT ![c] = [at |-> "idle", starts |-> 0]]
          /\ raised' = None
     ELSE /\ analytics' = analytics
          /\ phase' = [phase EXCEPT ![c] = [at |-> "failed", starts |-> 0]]
          /\ raised' = "TypeError"
  /\ UNCHANGED <<st, elements, session_state, log, calls, invoked, script, probe>>

StartTracking(c, page) ==
  /\ analytics[c].constructed
  /\ Len(calls[c]) < MaxCalls
  /\ LET r == start_tracking(c, analytics[c], st, page) IN
       /\ st' = r.st
       /\ analytics' = [analytics EXCEPT ![c]._original_mappings = r.mappings]
       /\ raised' = r.raised
  /\ log' = log
  /\ calls' = [calls EXCEPT ![c] = Append(@, [page |-> page,
                                              emitted |-> Len(log') > Len(log),
                                              raised |-> raised'])]
  /\ phase' = [phase EXCEPT ![c] = [at |-> "started",
                                    starts |-> IF @.at = "started" THEN @.starts + 1 ELSE 1]]
  /\ UNCHANGED <<elements, session_state, requested, invoked, script, probe>>

StopTracking(c) ==
  /\ analytics[c].constructed
  /\ st' = unwrap_st_functions(st, analytics[c]._original_mappings)
  /\ analytics' = [analytics EXCEPT ![c]._original_mappings = EmptyDict]
  /\ raised' = None
  /\ phase' = [phase EXCEPT ![c] = IF @.at = "started"
                                   THEN [at |-> "restored", starts |-> @.starts]
                                   ELSE @]
  /\ UNCHANGED <<elements, session_state, log, requested, calls, invoked, script, probe>>

(***************************************************************************)
(* The controller as a context manager.  __enter__ calls start_tracking()  *)
(* and returns the controller; __exit__ calls stop_tracking() and returns  *)
(* None, so it suppresses nothing.  The with statement runs the body and   *)
(* __exit__ only when __enter__ has returned; an exception of __enter__    *)
(* leaves the statement at once.                                           *)
(***************************************************************************)
__enter__(c, self, table) == start_tracking(c, self, table, Absent)

__exit__(table, mappings) ==
  [st |-> unwrap_st_functions(table, mappings), mappings |-> EmptyDict, suppress |-> FALSE]

BodyError == "RuntimeError"

WithOutcome(r, body_raises) ==
  IF r.raised # None
  THEN [st |-> r.st, mappings |-> r.mappings, raised |-> r.raised,
        entered |-> FALSE, exited |-> FALSE]
  ELSE LET x == __exit__(r.st, r.mappings) IN
       [st |-> x.st, mappings |-> x.mappings,
        raised |-> IF body_raises /\ ~x.suppress THEN BodyError ELSE None,
        entered |-> TRUE, exited |-> TRUE]

With(c, body_raises) ==
  /\ analytics[c].constructed
  /\ Len(calls[c]) < MaxCalls
  /\ \E r \in {__enter__(c, analytics[c], st)} :
       /\ calls' = [calls EXCEPT ![c] = Append(@, [page |-> Absent, emitted |-> FALSE,
                                                   raised |-> r.raised])]
       /\ \E o \in {WithOutcome(r, body_raises)} :
            /\ st' = o.st
            /\ analytics' = [analytics EXCEPT ![c]._original_mappings = o.mappings]
            /\ raised' = o.raised
            /\ phase' = [phase EXCEPT ![c] = [at |-> IF o.exited THEN "restored" ELSE "started",
                                              starts |-> IF @.at = "started" THEN @.starts + 1 ELSE 1]]
            /\ probe' = [phase |-> "with", body_raises |-> body_raises,
                         entered |-> o.entered, exited |-> o.exited,
                         restored |-> o.st = OriginalSt /\ o.mappings = EmptyDict,
                         raised |-> o.raised]
  /\ UNCHANGED <<elements, session_state, log, requested, invoked, script>>

(* The host's element-creation function receives the call t: the element  *)
(* is registered under its key with the callback bound to the recipe's     *)
(* callback parameter.  during notes the controllers that have called      *)
(* start_tracking and not yet stop_tracking at that moment.                *)
Register(type, t) ==
  LET m == MappingOf(type) IN
  /\ IF HostConflict(m, t.args, t.kwargs)
     THEN /\ raised' = "TypeError"
          /\ elements' = elements
     ELSE /\ raised' = None
          /\ elements' = DictSet(elements, HostKey(m, t.args, t.kwargs),
                                 [type |-> type,
                                  callback |-> HostBound(m, "action", t.args, t.kwargs),
                                  loggers |-> t.loggers,
                                  during |-> {c \in Controllers : phase[c].at = "started"}])
  /\ UNCHANGED <<st, analytics, session_state, log, requested, phase, calls,
                 invoked, script, probe>>

(* The application creates an element: through the function a namespace    *)
(* holds under the name, or through an interceptor it built itself over    *)
(* the original function with a controller's log_event.                    *)
CreateElement(fn, label, key, cb) ==
  \E t \in {CallThrough(fn, <<label>>,
                         MkKwargs({<<"key", key>>,
                                   <<MappingOf(fn.name).extraction_attributes["action"].name, cb>>}),
                         <<>>)} :
     Register(fn.name, t)

(* The host reports a user action on element k: the render state holds the *)
(* new value and the registered callback is called with (args, kwargs).    *)
(* A change is reported only for a value other than the one held.  The     *)
(* host calls the callback object of the element's last registration,      *)
(* whether or not a render pass has run since the previous action.         *)
UserAction(k, v, call) ==
  /\ k \in DOMAIN elements
  /\ Len(log) + Len(elements[k].loggers) <= MaxLog
  /\ IF MappingOf(elements[k].type).action_type = "click"
     THEN v = "True"
     ELSE v \in Values /\ (k \in DOMAIN session_state => session_state[k] # v)
  /\ session_state' = DictSet(session_state, k, v)
  /\ LET e == elements[k] IN
       IF e.callback = LoggerCallback
       THEN LET r == RunChain(Len(e.loggers), call.args, call.kwargs, session_state',
                              [loggers |-> e.loggers, effects |-> <<>>, ret |-> None])
            IN /\ elements' = [elements EXCEPT ![k].loggers = r.loggers]
               /\ log' = log \o Emitted(r.effects, analytics, session_state')
               /\ invoked' = invoked + 1
       ELSE UNCHANGED <<elements, log, invoked>>
  /\ raised' = None
  /\ UNCHANGED <<st, analytics, requested, phase, calls, script, probe>>

(***************************************************************************)
(* The host calls the callback the forwarded call registered, once, with   *)
(* (args, kwargs), while the render state holds the value v under the key  *)
(* the host was given for the element, holds nothing under it, or is not a *)
(* mapping.  The host has a callback to call only if the creation call     *)
(* succeeded.                                                              *)
(***************************************************************************)
Unreadable == "<unreadable>"

Lookups == {"a", Absent, Unreadable}

RenderState(id, v) ==
  CASE v = Absent -> EmptyDict
    [] v = Unreadable -> NotAMapping
    [] OTHER -> [k \in {id} |-> v]

Invoke(call, v) ==
  /\ probe.phase = "forwarded"
  /\ probe.has_logger
  /\ probe.returned.raised = None
  /\ \E r \in {RunChain(1, call.args, call.kwargs, RenderState(probe.fwd_kwargs["key"], v),
                         [loggers |-> <<probe.logger>>, effects |-> <<>>, ret |-> None])} :
       probe' = [phase |-> "returned", mapping |-> probe.mapping,
                 args |-> probe.args, kwargs |-> probe.kwargs,
                 logger |-> probe.logger,
                 call_args |-> call.args, call_kwargs |-> call.kwargs,
                 fwd_kwargs |-> probe.fwd_kwargs,
                 lookup |-> v,
                 events |-> Emitted(r.effects, analytics,
                                    RenderState(probe.fwd_kwargs["key"], v)),
                 trace |-> Trace(r.effects), ret |-> r.ret]
  /\ UNCHANGED <<st, analytics, elements, session_state, log, raised,
                 requested, phase, calls, invoked, script>>

(***************************************************************************)
(* The extraction of one call, field by field: the extractor is built over *)
(* copies of the call's arguments, and _extract_all_attributes calls       *)
(* check_and_get_attribute for the recipe's fields in declaration order.   *)
(* steps notes, for each field done, the collections before and after and  *)
(* the value returned.                                                     *)
(***************************************************************************)
BeginExtract ==
  /\ probe.phase = "called"
  /\ probe' = [phase |-> "extracting", mapping |-> probe.mapping,
               arguments |-> copy_list(probe.args),
               kwarguments |-> copy_dict(probe.kwargs),
               steps |-> <<>>]
  /\ UNCHANGED <<st, analytics, elements, session_state, log, raised,
                 requested, phase, calls, invoked, script>>

ExtractNext ==
  /\ probe.phase = "extracting"
  /\ Len(probe.steps) < Len(AttributeOrder)
  /\ \E attribute \in {probe.mapping.extraction_attributes[AttributeOrder[Len(probe.steps) + 1]]} :
     \E r \in {check_and_get_attribute(attribute, probe.arguments, probe.kwarguments)} :
       probe' = [probe EXCEPT
                   !.arguments = r.arguments,
                   !.kwarguments = r.kwarguments,
                   !.steps = Append(@, [attribute |-> attribute,
                                        arguments |-> probe.arguments,
                                        kwarguments |-> probe.kwarguments,
                                        ret |-> r.ret,
                                        arguments_after |-> r.arguments,
                                        kwarguments_after |-> r.kwarguments])]
  /\ UNCHANGED <<st, analytics, elements, session_state, log, raised,
                 requested, phase, calls, invoked, script>>

NextExtract == BeginExtract \/ ExtractNext

SpecExtract == InitCall /\ [][NextExtract]_vars

NextCall ==
  \/ Forward
  \/ \E call \in CallbackCalls, v \in Lookups : Invoke(call, v)

SpecCall == InitCall /\ [][NextCall]_vars

(***************************************************************************)
(* The application is a script with one element-creation call, which every *)
(* render pass executes again: through the function a namespace holds      *)
(* under the name at that time, or through an interceptor the script built *)
(* itself over the original function with a controller's log_event.  The   *)
(* host calls the element's callback with the args and kwargs the script   *)
(* registered for it.                                                      *)
(***************************************************************************)
Scripts ==
  [via : ContainerNames \cup {"direct"}, type : RenderTypes,
   key : {Absent, "k"}, cb : {Absent, "dev_cb"}, call : CallbackCalls]

Callables ==
  IF script.via = "direct"
  THEN {Interceptor(c, OriginalFn("st", script.type)) :
          c \in {x \in Primary : analytics[x].constructed}}
  ELSE {st[script.via][script.type]}

Init ==
  /\ InitCommon
  /\ analytics = [c \in Controllers |-> Unconstructed]
  /\ script \in Scripts
  /\ probe = NoProbe

Next ==
  \/ \E c \in Primary, kwargs \in CtorKwargs : Construct(c, kwargs)
  \/ \E c \in Primary : StartTracking(c, Absent)
  \/ \E c \in Primary : StopTracking(c)
  \/ \E fn \in Callables : CreateElement(fn, "A", script.key, script.cb)
  \/ \E k \in DOMAIN elements, v \in Values \cup {"True"} :
        UserAction(k, v, script.call)

Spec == Init /\ [][Next]_vars

(***************************************************************************)
(* StreamlitPageAnalytics.set_session_id and set_user_id assign the field. *)
(***************************************************************************)
set_session_id(self, session_id) == [self EXCEPT !._session_id = session_id]

set_user_id(self, user_id) == [self EXCEPT !._user_id = user_id]

SessionIds == {"s2"}

UserIds == {"u2"}

SetSessionId(c, session_id) ==
  /\ analytics[c].constructed
  /\ analytics' = [analytics EXCEPT ![c] = set_session_id(@, session_id)]
  /\ raised' = None
  /\ UNCHANGED <<st, elements, session_state, log, requested, phase, calls,
                 invoked, script, probe>>

SetUserId(c, user_id) ==
  /\ analytics[c].constructed
  /\ analytics' = [analytics EXCEPT ![c] = set_user_id(@, user_id)]
  /\ raised' = None
  /\ UNCHANGED <<st, elements, session_state, log, requested, phase, calls,
                 invoked, script, probe>>

(***************************************************************************)
(* The controller's logging interface: the application builds its          *)
(* interceptor itself over a controller's log_event, sets the identifiers  *)
(* at any time, and the user acts on the element.                          *)
(***************************************************************************)
InitApi ==
  /\ InitCommon
  /\ analytics = [c \in Controllers |-> Unconstructed]
  /\ script \in {x \in Scripts : x.via = "direct"}
  /\ probe = NoProbe

NextApi ==
  \/ \E c \in Primary : Construct(c, EmptyDict)
  \/ \E c \in Primary, session_id \in SessionIds : SetSessionId(c, session_id)
  \/ \E c \in Primary, user_id \in UserIds : SetUserId(c, user_id)
  \/ \E fn \in Callables : CreateElement(fn, "A", script.key, script.cb)
  \/ \E k \in DOMAIN elements, v \in Values \cup {"True"} :
        UserAction(k, v, script.call)

SpecApi == InitApi /\ [][NextApi]_vars

(***************************************************************************)
(* Events the application builds and logs itself.                          *)
(*                                                                         *)
(* A Python value given as the action of a UserEvent is a str or a member  *)
(* of the enum UserEventAction; a member has a name and a value.           *)
(* UserEventAction(value) is the enum's lookup by value: the member with   *)
(* that value, or ValueError.  UserEvent.__post_init__ replaces an action  *)
(* that is a str by the result of the lookup and leaves any other action   *)
(* as it is; an exception of __post_init__ is an exception of the          *)
(* construction, and no object is produced.                                *)
(***************************************************************************)
Str(s) == [type |-> "str", name |-> "", value |-> s]

Member(n, v) == [type |-> "UserEventAction", name |-> n, value |-> v]

UserEventActionMembers ==
  {Member("START_TRACKING", "start_tracking"), Member("CLICK", "click"),
   Member("CHANGE", "change"), Member("SUBMIT", "submit"), Member("OTHER", "other")}

UserEventAction_by_value(value) ==
  IF \E m \in UserEventActionMembers : m.value = value
  THEN [raised |-> None,
        result |-> <<CHOOSE m \in UserEventActionMembers : m.value = value>>]
  ELSE [raised |-> "ValueError", result |-> <<>>]

(* Variant: a string that is no member's value becomes OTHER.              *)
__post_init___lenient(action) ==
  IF action.type = "str"
  THEN IF UserEventAction_by_value(action.value).raised = None
       THEN UserEventAction_by_value(action.value)
       ELSE [raised |-> None, result |-> <<Member("OTHER", "other")>>]
  ELSE [raised |-> None, result |-> <<action>>]

__post_init__(action) ==
  IF action.type = "str"
  THEN UserEventAction_by_value(action.value)
  ELSE [raised |-> None, result |-> <<action>>]

ActionStrings == UserEventAction \cup {"", "CLICK", "Click", "hover"}

ActionInputs == {Str(x) : x \in ActionStrings} \cup {Member("SUBMIT", "submit")}

(* The element the application's own events are about.                     *)
AppWidget ==
  extract_widget("button", MappingOf("button").extraction_attributes,
                 <<"A">>, EmptyDict, EmptyDict).widget

(* isinstance(obj, cls), on objects that carry their class.  Objects that  *)
(* are no UserEvent: a dict with an event's keys, and an object of another *)
(* class with an event's attributes.                                       *)
isinstance(obj, cls) == obj.class = cls

NonEvents ==
  {[class |-> c, action |-> Member("CLICK", "click")] : c \in {"dict", "SimpleNamespace"}}

(* The application constructs UserEvent(action=a, widget=AppWidget).       *)
BuildEvent(a) ==
  /\ \E r \in {__post_init__(a)} :
       /\ probe' = [phase |-> "built", given |-> a, raised |-> r.raised,
                    objects |-> [i \in DOMAIN r.result |->
                                   [class |-> "UserEvent", action |-> r.result[i]]]]
       /\ raised' = r.raised
  /\ UNCHANGED <<st, analytics, elements, session_state, log, requested, phase,
                 calls, invoked, script>>

(* log_event's test of its argument (the first statement), and variants.   *)
log_event_rejects_none(partial_event) == FALSE

log_event_rejects(partial_event) == ~isinstance(partial_event, "UserEvent")

(* The application calls c.log_event(obj) with the event it has built or   *)
(* with an object that is no UserEvent.  to_dict writes the action's       *)
(* value.                                                                  *)
LogInputs ==
  NonEvents \cup (IF probe.phase = "built" THEN {probe.objects[i] : i \in DOMAIN probe.objects}
                  ELSE {})

LogEvent(c, obj) ==
  /\ analytics[c].constructed
  /\ Len(log) < MaxLog
  /\ IF log_event_rejects(obj)
     THEN /\ raised' = "TypeError"
          /\ log' = log
     ELSE /\ raised' = None
          /\ log' = Append(log, [via |-> c, entered |-> None,
                                 record |-> log_event(analytics[c],
                                                      UserEvent(obj.action.value, AppWidget,
                                                                EmptyDict))])
  /\ probe' = [phase |-> "logged", class |-> obj.class, raised |-> raised',
               forwarded |-> Len(log') - Len(log)]
  /\ UNCHANGED <<st, analytics, elements, session_state, requested, phase,
                 calls, invoked, script>>

InitEvents ==
  /\ InitCommon
  /\ analytics = [c \in Controllers |-> Unconstructed]
  /\ script = NoScript
  /\ probe = NoProbe

NextEvents ==
  \/ \E c \in Primary : Construct(c, EmptyDict)
  \/ \E c \in Primary, session_id \in SessionIds : SetSessionId(c, session_id)
  \/ \E a \in ActionInputs : BuildEvent(a)
  \/ \E c \in Primary, obj \in LogInputs : LogEvent(c, obj)

SpecEvents == InitEvents /\ [][NextEvents]_vars

(***************************************************************************)
(* Page tracking: a controller and its start_tracking(page_name) and       *)
(* stop_tracking calls alone.                                              *)
(***************************************************************************)
InitPages ==
  /\ InitCommon
  /\ analytics = [c \in Controllers |-> Unconstructed]
  /\ script = NoScript
  /\ probe = NoProbe

NextPages ==
  \/ \E c \in Primary, kwargs \in CtorKwargs : Construct(c, kwargs)
  \/ \E c \in Primary, page \in PageArgs : StartTracking(c, page)
  \/ \E c \in Primary : StopTracking(c)
  \/ \E c \in Primary, body_raises \in BOOLEAN : With(c, body_raises)

SpecPages == InitPages /\ [][NextPages]_vars

(***************************************************************************)
(* Two sessions: each constructs its own controller over the one host      *)
(* module and starts and stops tracking on it, with or without a page      *)
(* name.                                                                   *)
(***************************************************************************)
NextTwo ==
  \/ \E c \in Controllers : Construct(c, EmptyDict)
  \/ \E c \in Controllers, page \in {Absent, "Home"} : StartTracking(c, page)
  \/ \E c \in Controllers : StopTracking(c)

SpecTwo == InitPages /\ [][NextTwo]_vars

(***************************************************************************)
(* Interceptors on the namespaces.  start_tracking of this source puts     *)
(* none there (the WrappedWidget call raises), so the application does it  *)
(* itself: for each (namespace, name) of targets that still holds the      *)
(* host's function, it builds a WrappedWidget over that function with the  *)
(* controller's log_event and assigns its wrapped_widget_fn to the         *)
(* attribute.  The targets are the first namespace the installation loop   *)
(* visits for the first recipe, both namespaces for that recipe, or every  *)
(* recipe on both namespaces.  Two controllers then start and stop         *)
(* tracking over these namespaces.                                         *)
(***************************************************************************)
AllTargets == {<<cn, w>> : cn \in ContainerNames, w \in WidgetNames}

HandTargets ==
  {{<<Containers[1], MAPPINGS[1].st_widget_name>>},
   {<<cn, MAPPINGS[1].st_widget_name>> : cn \in ContainerNames},
   AllTargets}

HandInstall(c, targets) ==
  /\ analytics[c].constructed
  /\ \E t \in targets : ModuleOf(st[t[1]][t[2]]) = HOST_MODULE
  /\ st' = [cn \in ContainerNames |->
              [w \in WidgetNames |->
                 IF <<cn, w>> \in targets /\ ModuleOf(st[cn][w]) = HOST_MODULE
                 THEN Interceptor(c, st[cn][w])
                 ELSE st[cn][w]]]
  /\ raised' = None
  /\ UNCHANGED <<analytics, elements, session_state, log, requested, phase, calls,
                 invoked, script, probe>>

NextHand ==
  \/ \E c \in Controllers : Construct(c, EmptyDict)
  \/ \E c \in Controllers, targets \in HandTargets : HandInstall(c, targets)
  \/ \E c \in Controllers : StartTracking(c, Absent)
  \/ \E c \in Controllers : StopTracking(c)

SpecHand == InitPages /\ [][NextHand]_vars

(***************************************************************************)
(* Two sessions over one host module, with elements: each controller       *)
(* starts and stops tracking, the application of either session creates    *)
(* the button "k" through the function the primary namespace holds, and    *)
(* the user clicks it.  Each session starts tracking at most MaxStarts     *)
(* times.                                                                  *)
(***************************************************************************)
NextShared ==
  \/ \E c \in Controllers : Construct(c, EmptyDict)
  \/ \E c \in Controllers : HandInstall(c, AllTargets)
  \/ \E c \in Controllers : Len(calls[c]) < MaxStarts /\ StartTracking(c, Absent)
  \/ \E c \in Controllers : StopTracking(c)
  \/ CreateElement(st["st"]["button"], "A", "k", Absent)
  \/ \E k \in DOMAIN elements, v \in Values \cup {"True"} :
        UserAction(k, v, [args |-> <<>>, kwargs |-> EmptyDict])

SpecShared == InitPages /\ [][NextShared]_vars

(***************************************************************************)
(* One render pass of a script with two element-creation calls that give   *)
(* no key, each through an interceptor over the host's function with the   *)
(* controller's log_event: the keys the two underlying calls receive.      *)
(***************************************************************************)
RenderPass(c, w1, l1, w2, l2) ==
  /\ analytics[c].constructed
  /\ probe.phase = "none"
  /\ \E t1 \in {CallThrough(Interceptor(c, OriginalFn("st", w1)), <<l1>>, EmptyDict, <<>>)} :
     \E t2 \in {CallThrough(Interceptor(c, OriginalFn("st", w2)), <<l2>>, EmptyDict, <<>>)} :
       probe' = [phase |-> "pass",
                 created |-> <<[type |-> w1, label |-> l1, key |-> t1.kwargs["key"]],
                               [type |-> w2, label |-> l2, key |-> t2.kwargs["key"]]>>]
  /\ raised' = None
  /\ UNCHANGED <<st, analytics, elements, session_state, log, requested, phase, calls,
                 invoked, script>>

NextPass ==
  \/ \E c \in Primary : Construct(c, EmptyDict)
  \/ \E c \in Primary, w1 \in WidgetNames, w2 \in WidgetNames, l1 \in Labels, l2 \in Labels :
        RenderPass(c, w1, l1, w2, l2)

SpecPass == InitPages /\ [][NextPass]_vars

(***************************************************************************)
(* Installation and restoration.                                           *)
(***************************************************************************)

(* C1: after start_tracking has been called any number of times (N >= 1)   *)
(* on a controller and stop_tracking once, every recipe-named function of  *)
(* the primary and the sidebar namespace is the function that was there    *)
(* before the first start_tracking.                                        *)
C1_IdempotentInstall ==
  \A c \in Controllers :
     phase[c].at = "restored" =>
        \A cn \in ContainerNames, w \in WidgetNames : st[cn][w] = OriginalFn(cn, w)

(* start_tracking twice, then stop_tracking.                               *)
C1_Witness ==
  \E c \in Controllers :
     /\ phase[c].at = "restored"
     /\ phase[c].starts >= 2
     /\ st = OriginalSt
     /\ analytics[c]._original_mappings = EmptyDict

(***************************************************************************)
(* Events.                                                                 *)
(***************************************************************************)

(* C2: the number of widget events emitted equals the number of user       *)
(* actions the host reported to a wrapped callback; executing an           *)
(* element-creation call emits nothing.                                    *)
C2_OneEventPerAction == Len(log) = invoked

(* Two user actions on an element created through an interceptor, each     *)
(* with its event.                                                         *)
C2_Witness ==
  /\ invoked >= 2
  /\ Len(log) >= 2
  /\ \E k \in DOMAIN elements : elements[k].callback = LoggerCallback

(* C3: in every emitted record, after any sequence of interactions, the    *)
(* widget.values object has no "previous" key.                             *)
C3_NoPreviousValue ==
  \A i \in DOMAIN log : "previous" \notin DOMAIN log[i].record.widget.values

(***************************************************************************)
(* What the argument round trip promises for a call (args, kwargs) of      *)
(* recipe m: the positions at which the call supplied a declared field,    *)
(* and the call with those positions and the declared keywords taken out.  *)
(***************************************************************************)
DeclaredFields(m) == {m.extraction_attributes[a] : a \in DOMAIN m.extraction_attributes}

DeclaredPositions(m, args, kwargs) ==
  {f.index + 1 : f \in {g \in DeclaredFields(m) :
                          Len(args) > g.index /\ g.name \notin DOMAIN kwargs}}

RECURSIVE Without(_, _, _)
Without(s, positions, i) ==
  IF i > Len(s) THEN <<>>
  ELSE (IF i \in positions THEN <<>> ELSE <<s[i]>>) \o Without(s, positions, i + 1)

SuppliedLabel(args, kwargs) == IF "label" \in DOMAIN kwargs THEN kwargs["label"] ELSE args[1]

(* C4: the underlying function receives the label first, then the          *)
(* positional arguments of the call that are not declared fields of the    *)
(* recipe, in their original order, and the keywords of the call that are  *)
(* not declared fields, plus key = the resolved identifier and the         *)
(* callback keyword = the wrapping logger.                                 *)
C4_ArgumentRoundTrip ==
  probe.phase = "forwarded" =>
    LET m == probe.mapping
        names == {f.name : f \in DeclaredFields(m)}
        an == m.extraction_attributes["action"].name
        kept == (DOMAIN probe.kwargs) \ names
    IN /\ probe.fwd_args = <<SuppliedLabel(probe.args, probe.kwargs)>>
                             \o Without(probe.args,
                                        DeclaredPositions(m, probe.args, probe.kwargs), 1)
       /\ DOMAIN probe.fwd_kwargs = kept \cup {"key", an}
       /\ \A k \in kept : probe.fwd_kwargs[k] = probe.kwargs[k]
       /\ probe.fwd_kwargs["key"] = probe.widget.id
       /\ probe.fwd_kwargs[an] = LoggerCallback


(***************************************************************************)
(* Masking.                                                                *)
(***************************************************************************)
AskedMaskAll(c) ==
  /\ "mask_all_values" \in DOMAIN requested[c]
  /\ requested[c]["mask_all_values"]

ValuesOf(i) == log[i].record.widget.values

Current(i) == IF "current" \in DOMAIN ValuesOf(i) THEN ValuesOf(i)["current"] ELSE None

(* The CHANGE events whose value was read from the render state.           *)
ChangeEvents ==
  {i \in DOMAIN log : log[i].record.action = "change" /\ log[i].entered # None}

(* C5: a controller built with mask_all_values true exists, and every      *)
(* CHANGE event of an element of any type that goes through it carries     *)
(* values.current = "[REDACTED]", whatever mask_text_input_values is.      *)
C5_MaskAllValues ==
  \A c \in Controllers :
     AskedMaskAll(c) =>
        /\ phase[c].at # "failed"
        /\ \A i \in ChangeEvents : log[i].via = c => Current(i) = REDACTED

(* C6: with mask_all_values false, values.current of a CHANGE event is     *)
(* "[REDACTED]" exactly when mask_text_input_values is true and the        *)
(* element is a text_input or text_area, and the raw render-state value    *)
(* otherwise.                                                              *)
C6_MaskTextInputValues ==
  \A i \in ChangeEvents :
     LET c == log[i].via IN
     ~AskedMaskAll(c) =>
        Current(i) = IF /\ analytics[c]._mask_text_input_values
                        /\ log[i].record.widget.type \in _TEXT_INPUT_WIDGET_TYPES
                     THEN REDACTED
                     ELSE log[i].entered

(* C7: when masking is active for an element, no value a user can enter    *)
(* occurs in the values of an emitted record, so the records of two runs   *)
(* that differ only in the value entered are the same.                     *)
C7_MaskedValueNowhere ==
  \A i \in DOMAIN log :
     LET c == log[i].via IN
     (\/ AskedMaskAll(c)
      \/ /\ analytics[c]._mask_text_input_values
         /\ log[i].record.widget.type \in _TEXT_INPUT_WIDGET_TYPES)
       => \A f \in DOMAIN ValuesOf(i) : ValuesOf(i)[f] \notin Values \ {None}

(***************************************************************************)
(* Page tracking.                                                          *)
(***************************************************************************)
Named(page) == page \notin {Absent, ""}

PrevNamed(cs, i) == {j \in 1..(i - 1) : Named(cs[j].page)}

Latest(S) == CHOOSE x \in S : \A y \in S : y <= x

(* The last page name logged before call i is the page name of the latest  *)
(* earlier call that had one.                                              *)
ShouldEmit(cs, i) ==
  /\ Named(cs[i].page)
  /\ \/ PrevNamed(cs, i) = {}
     \/ cs[Latest(PrevNamed(cs, i))].page # cs[i].page

(* C8: a start_tracking(page_name) call emits a START_TRACKING event if    *)
(* and only if its page name is non-empty and differs, case-sensitively,   *)
(* from the last page name the controller logged (or none was logged).     *)
C8_PageDedup ==
  \A c \in Controllers :
     \A i \in DOMAIN calls[c] : calls[c][i].emitted <=> ShouldEmit(calls[c], i)

(* C9: a start_tracking call with an absent or empty page name emits no    *)
(* page event, and start_tracking("Home"), start_tracking(),               *)
(* start_tracking("Home") emits exactly one.                               *)
C9_AbsentPageName ==
  \A c \in Controllers :
     /\ \A i \in DOMAIN calls[c] : ~Named(calls[c][i].page) => ~calls[c][i].emitted
     /\ [i \in DOMAIN calls[c] |-> calls[c][i].page] = <<"Home", Absent, "Home">>
          => Cardinality({i \in DOMAIN calls[c] : calls[c][i].emitted}) = 1

(***************************************************************************)
(* The wrapping callback.                                                  *)
(***************************************************************************)

(* C10: an invocation of the wrapping callback with (args, kwargs) first   *)
(* hands the event to the logger, then calls the original callback once    *)
(* with the same args and kwargs and returns its result; without an        *)
(* original callback it returns None.                                      *)
C10_CallbackForwarding ==
  probe.phase = "returned" =>
    LET cb == probe.logger._original_element_callback
        logged == [op |-> "log", target |-> probe.logger._logger_fn,
                   args |-> probe.call_args, kwargs |-> probe.call_kwargs]
        called == [op |-> "call", target |-> cb,
                   args |-> probe.call_args, kwargs |-> probe.call_kwargs]
    IN IF cb # None
       THEN probe.trace = <<logged, called>> /\ probe.ret = DevResult(cb)
       ELSE probe.trace = <<logged>> /\ probe.ret = None

(* A developer callback called with arguments, and one call without a      *)
(* developer callback.                                                     *)
C10_Witness ==
  /\ probe.phase = "returned"
  /\ probe.logger._original_element_callback = "dev_cb"
  /\ probe.call_args = <<"x">>
  /\ Len(probe.trace) = 2
  /\ probe.ret = DevResult("dev_cb")

(***************************************************************************)
(* Element identity.                                                       *)
(***************************************************************************)

(* C11: for element-creation calls without an explicit key the resolved    *)
(* identifier is the same on every render pass: every record of a script   *)
(* whose call gives no key carries one and the same widget id, the prefix  *)
(* followed by the checksum of the label, whatever happened before.        *)
C11_IdentityStable ==
  script.via = "direct" /\ script.key = Absent =>
    \A i \in DOMAIN log :
       log[i].record.widget.id = _DEFAULT_ELEMENT_ID_PREFIX \o get_crc32_hash("A")

(* Two records of a change element, both from a fresh render pass (an      *)
(* element that was not created again would report a previous value).      *)
C11_Witness ==
  /\ script.via = "direct"
  /\ script.key = Absent
  /\ Len(log) = 2
  /\ \A i \in DOMAIN log :
        /\ log[i].record.action = "change"
        /\ DOMAIN ValuesOf(i) = {"current"}
        /\ log[i].record.widget.id = "pg-trk-3554254475"

(* C12: a non-empty extracted key is the identifier, verbatim; with the    *)
(* key absent, None or the empty string the identifier is "pg-trk-"        *)
(* followed by the checksum of the label, the same for all three.          *)
C12_KeyRule ==
  probe.phase = "forwarded" =>
    LET x == _extract_all_attributes(probe.mapping.extraction_attributes,
                                     probe.args, probe.kwargs).extracted
    IN probe.widget.id = IF x["key"] \notin {None, ""}
                         THEN x["key"]
                         ELSE _DEFAULT_ELEMENT_ID_PREFIX \o get_crc32_hash(x["label"])

(* An empty-string key given by keyword resolves as no key does.           *)
C12_Witness ==
  /\ probe.phase = "forwarded"
  /\ "key" \in DOMAIN probe.kwargs
  /\ probe.kwargs["key"] = ""
  /\ probe.widget.label = "A"
  /\ probe.widget.id = "pg-trk-3554254475"

(***************************************************************************)
(* Starting and stopping.                                                  *)
(***************************************************************************)

(* C13: start_tracking() completes without raising, and afterwards every   *)
(* recipe-named function of the primary and the sidebar namespace is an    *)
(* interceptor whose original is recorded under (namespace, name).         *)
C13_StartInstalls ==
  \A c \in Controllers :
     /\ \A i \in DOMAIN calls[c] : calls[c][i].page = Absent => calls[c][i].raised = None
     /\ phase[c].at = "started" =>
          \A cn \in ContainerNames, w \in WidgetNames :
             /\ ModuleOf(st[cn][w]) = WRAPPED_MODULE
             /\ <<cn, w>> \in DOMAIN analytics[c]._original_mappings

(* C14: after stop_tracking() has returned and until the next              *)
(* start_tracking(), no user action on any element emits an event.         *)
C14_NoEventsAfterStop ==
  [][(/\ \E c \in Controllers : phase[c].at = "restored"
      /\ \A c \in Controllers : phase[c].at # "started") => log' = log]_vars

(* C15: a with statement over the controller starts tracking on entry,     *)
(* and on leaving the body, normally or by an exception, all originals are *)
(* back, the installation record is empty and the body's exception, if     *)
(* any, is what the statement raises.                                      *)
C15_ContextManager ==
  probe.phase = "with" =>
    /\ probe.entered
    /\ probe.exited
    /\ probe.restored
    /\ probe.raised = IF probe.body_raises THEN BodyError ELSE None

(***************************************************************************)
(* The identifiers of a record.                                            *)
(***************************************************************************)

(* C16: every record carries the session_id and the user_id its controller *)
(* holds at the moment the record is emitted, whenever the element was     *)
(* created.                                                                *)
C16_IdsAtEmission ==
  [][\A i \in (DOMAIN log') \ (DOMAIN log) :
        LET e == log'[i] IN
        /\ {"session_id", "user_id"} \subseteq DOMAIN e.record
        /\ e.record.session_id = analytics[e.via]._session_id
        /\ e.record.user_id = analytics[e.via]._user_id]_vars

(* Two records of one callback object, registered before the identifiers   *)
(* were changed: the first with the constructor's, the second with the new *)
(* ones.                                                                   *)
C16_Witness ==
  /\ Len(log) = 2
  /\ log[1].record.session_id = SessionOf("c1") /\ log[1].record.user_id = UserOf("c1")
  /\ log[2].record.session_id = "s2" /\ log[2].record.user_id = "u2"
  /\ "previous" \in DOMAIN log[2].record.widget.values
  /\ log[2].record.widget.values.previous = log[1].record.widget.values.current

(***************************************************************************)
(* Two controllers.                                                        *)
(***************************************************************************)

(* C17: an operation on one controller leaves the other controller's       *)
(* installation record and page state as they are, and when each of two    *)
(* controllers is started with the page name "Home", each emits its page   *)
(* event.                                                                  *)
C17_IndependentControllers ==
  /\ [][\A a, b \in Controllers :
          a # b /\ (calls'[a] # calls[a] \/ phase'[a] # phase[a])
            => analytics'[b] = analytics[b] /\ calls'[b] = calls[b]]_vars
  /\ [](\A a, b \in Controllers :
          /\ a # b
          /\ calls[a] # <<>> /\ calls[a][1].page = "Home"
          /\ calls[b] # <<>> /\ calls[b][1].page = "Home"
          => calls[a][1].emitted /\ calls[b][1].emitted)

(***************************************************************************)
(* Failures.                                                               *)
(***************************************************************************)

C19_RejectsNonEvent ==
  [][(probe' # probe /\ probe'.phase = "logged" /\ probe'.class # "UserEvent") =>
       /\ raised' = "TypeError"
       /\ log' = log
       /\ analytics' = analytics
       /\ st' = st /\ elements' = elements /\ session_state' = session_state]_vars

C19_Witness ==
  /\ probe.phase = "logged"
  /\ probe.class = "dict"
  /\ probe.raised = "TypeError"
  /\ probe.forwarded = 0
  /\ raised = "TypeError"
  /\ Len(log) = 1

(* C20: UserEvent(action=s) for a string s succeeds exactly when s is one  *)
(* of start_tracking, click, change, submit, other, and the event's action *)
(* is then the enum member with that value; for any other string the       *)
(* construction raises ValueError and produces no event.                   *)
C20_ActionString ==
  (probe.phase = "built" /\ probe.given.type = "str") =>
     IF probe.given.value \in {"start_tracking", "click", "change", "submit", "other"}
     THEN /\ probe.raised = None
          /\ Len(probe.objects) = 1
          /\ probe.objects[1].action.type = "UserEventAction"
          /\ probe.objects[1].action.value = probe.given.value
     ELSE /\ probe.raised = "ValueError"
          /\ probe.objects = <<>>

(* An event built from "change" has been logged with its member's value,  *)
(* and the member's name given as a string is refused.                     *)
C20_Witness ==
  /\ probe.phase = "built" /\ probe.given = Str("CLICK")
  /\ probe.raised = "ValueError" /\ probe.objects = <<>>
  /\ Len(log) = 1 /\ log[1].record.action = "change"

(***************************************************************************)
(* The interceptor and the underlying function.                            *)
(***************************************************************************)

(* C21: a call of an interceptor calls the original host function it was   *)
(* built over exactly once, and what the interceptor gives back is what    *)
(* that call gave: its result, or its exception.                           *)
C21_OneUnderlyingCall ==
  probe.phase = "forwarded" =>
    /\ Len(probe.invocations) = 1
    /\ probe.invocations[1].fn = OriginalFn("st", probe.mapping.st_widget_name)
    /\ probe.returned = HostResult(probe.mapping, probe.invocations[1].args,
                                   probe.invocations[1].kwargs)

C21_Witness ==
  /\ probe.phase = "forwarded"
  /\ probe.mapping.st_widget_name = "checkbox"
  /\ Len(probe.invocations) = 1
  /\ probe.returned = [raised |-> None, value |-> "element-k"]

(***************************************************************************)
(* The serialized record.                                                  *)
(***************************************************************************)
ScalarsFilled(d, keys) == \A k \in (DOMAIN d) \cap keys : d[k] \notin {None, ""}

ExtraFilled(x) ==
  /\ \A k \in DOMAIN x : x[k] # <<>>
  /\ "kwargs" \in DOMAIN x => ScalarsFilled(x.kwargs, DOMAIN x.kwargs)

(* C22: in every record written, at every depth (the record, its extra,    *)
(* its widget, the widget's values and extra), no key has the value null,  *)
(* "", an empty list or an empty object.                                   *)
C22_NoEmptyValues ==
  \A i \in DOMAIN log :
     LET r == log[i].record IN
     /\ ScalarsFilled(r, {"session_id", "user_id", "page_name", "action"})
     /\ "extra" \in DOMAIN r => r.extra # <<>> /\ ExtraFilled(r.extra)
     /\ "widget" \in DOMAIN r =>
          /\ ScalarsFilled(r.widget, {"id", "type", "label"})
          /\ "values" \in DOMAIN r.widget =>
               /\ r.widget.values # <<>>
               /\ ScalarsFilled(r.widget.values, DOMAIN r.widget.values)
          /\ "extra" \in DOMAIN r.widget =>
               r.widget.extra # <<>> /\ ExtraFilled(r.widget.extra)

(***************************************************************************)
(* Installation by several controllers.                                    *)
(***************************************************************************)

(* C23: whatever the order of the start_tracking and stop_tracking calls   *)
(* of the controllers, a recipe-named function of a namespace is the       *)
(* original or an interceptor built over the original, never an            *)
(* interceptor over an interceptor; and a start_tracking call leaves every *)
(* attribute it finds intercepted, and the record entry for it, as they    *)
(* are.                                                                    *)
C23_NoDoubleWrap ==
  /\ [](\A t \in AllTargets : Len(st[t[1]][t[2]].owners) <= 1)
  /\ [][\A c \in Controllers :
          Len(calls'[c]) > Len(calls[c]) =>
            \A t \in AllTargets :
               ModuleOf(st[t[1]][t[2]]) = WRAPPED_MODULE =>
                 /\ st'[t[1]][t[2]] = st[t[1]][t[2]]
                 /\ (t \in DOMAIN analytics'[c]._original_mappings)
                      = (t \in DOMAIN analytics[c]._original_mappings)]_vars

(* Both controllers have called start_tracking with every function         *)
(* intercepted (the later call returned without raising), one has stopped, *)
(* and the interceptors are still the ones over the originals.             *)
C23_Witness ==
  /\ \A t \in AllTargets : st[t[1]][t[2]].owners \in {<<"c1">>, <<"c2">>}
  /\ \A c \in Controllers : calls[c] # <<>> /\ calls[c][Len(calls[c])].raised = None
  /\ phase["c1"].at = "restored" /\ phase["c2"].at = "started"

(* C24: with two controllers, an event of an element that was created      *)
(* while a controller was between its start_tracking and its stop_tracking *)
(* is emitted through that controller and carries its session_id and       *)
(* user_id.                                                                *)
C24_EventsOfOwnWindow ==
  [][\A i \in (DOMAIN log') \ (DOMAIN log) :
        \A k \in DOMAIN elements :
           \A c \in elements[k].during :
              /\ log'[i].via = c
              /\ log'[i].record.session_id = analytics[c]._session_id
              /\ log'[i].record.user_id = analytics[c]._user_id]_vars

(* C25: when no controller is between a start_tracking and a               *)
(* stop_tracking, every recipe-named function of both namespaces is the    *)
(* host's original and every installation record is empty; and at no time  *)
(* does an installation record hold an interceptor as an original.         *)
C25_AllRestored ==
  /\ (\A c \in Controllers : phase[c].at # "started") =>
        /\ \A t \in AllTargets : st[t[1]][t[2]] = OriginalFn(t[1], t[2])
        /\ \A c \in Controllers : analytics[c]._original_mappings = EmptyDict
  /\ \A c \in Controllers :
        \A t \in DOMAIN analytics[c]._original_mappings :
           ModuleOf(analytics[c]._original_mappings[t]) = HOST_MODULE

(* Both controllers have started and stopped, one of them twice.           *)
C25_Witness ==
  /\ phase["c1"].at = "restored" /\ phase["c2"].at = "restored"
  /\ Len(calls["c1"]) >= 2 /\ Len(calls["c2"]) >= 1
  /\ st = OriginalSt
  /\ \A c \in Controllers : analytics[c]._original_mappings = EmptyDict

(* C26: the value the underlying function receives under the keyword key   *)
(* is the id of the element the wrapping logger holds, the id written in   *)
(* every event of that logger, and the key under which the logger finds    *)
(* the element's value in the render state.                                *)
C26_ForcedKeyIsId ==
  /\ probe.phase = "forwarded" =>
        /\ "key" \in DOMAIN probe.fwd_kwargs
        /\ probe.fwd_kwargs["key"] = probe.widget.id
        /\ probe.has_logger => probe.logger._widget.id = probe.fwd_kwargs["key"]
  /\ probe.phase = "returned" =>
        /\ probe.logger._widget.id = probe.fwd_kwargs["key"]
        /\ \A i \in DOMAIN probe.events :
              /\ probe.events[i].record.widget.id = probe.fwd_kwargs["key"]
              /\ (probe.mapping.action_type = "change" /\ probe.lookup = "a") =>
                   /\ "current" \in DOMAIN probe.events[i].record.widget.values
                   /\ probe.events[i].record.widget.values.current = "a"

(* A change element without a key: the host holds its value under the      *)
(* forced key, and the event has that id and the value.                    *)
C26_Witness ==
  /\ probe.phase = "returned"
  /\ probe.mapping.st_widget_name = "selectbox"
  /\ probe.fwd_kwargs["key"] = "pg-trk-1255198513"
  /\ Len(probe.events) = 1
  /\ probe.events[1].record.widget.id = "pg-trk-1255198513"
  /\ probe.events[1].record.widget.values = [current |-> "a"]

(***************************************************************************)
(* Positional arguments.                                                   *)
(***************************************************************************)
KeyIndex(m) == m.extraction_attributes["key"].index

(* The call gives the label at position 0 and a non-empty key at the       *)
(* position the recipe declares for it, and that value nowhere else.       *)
PositionalKey ==
  /\ probe.phase = "forwarded"
  /\ DOMAIN probe.kwargs \cap {"label", "key"} = {}
  /\ Len(probe.args) > KeyIndex(probe.mapping)
  /\ probe.args[KeyIndex(probe.mapping) + 1] \notin {None, ""}
  /\ \A j \in DOMAIN probe.args :
        j # KeyIndex(probe.mapping) + 1
          => probe.args[j] # probe.args[KeyIndex(probe.mapping) + 1]

(* C27: for every recipe, a non-empty key given positionally at the        *)
(* recipe's key index, with the label at position 0, is the element's      *)
(* identifier and is not among the positional arguments forwarded to the   *)
(* underlying function.                                                    *)
C27_PositionalKey ==
  PositionalKey =>
    LET key == probe.args[KeyIndex(probe.mapping) + 1] IN
    /\ probe.widget.id = key
    /\ \A j \in DOMAIN probe.fwd_args : probe.fwd_args[j] # key

(* C28: in one render pass, two element-creation calls without a key that  *)
(* differ in element type or in label are given different keys.            *)
C28_DistinctForcedKeys ==
  probe.phase = "pass" =>
    LET a == probe.created[1]
        b == probe.created[2]
    IN (a.type # b.type \/ a.label # b.label) => a.key # b.key

(***************************************************************************)
(* Extraction.                                                             *)
(***************************************************************************)

(* C29: the fields are taken in declaration order, and for each: if its    *)
(* keyword name is among the keyword arguments, the value is that          *)
(* keyword's, the keyword is removed and the positional list is untouched; *)
(* else if the positional list as it is now has a non-null value at the    *)
(* declared index, that value is taken and removed; else the field is None *)
(* and nothing changes.                                                    *)
C29_FieldRule ==
  probe.phase = "extracting" =>
    \A i \in DOMAIN probe.steps :
       LET s == probe.steps[i]
           f == s.attribute
           a == s.arguments
           k == s.kwarguments
       IN /\ f = probe.mapping.extraction_attributes[<<"label", "key", "action">>[i]]
          /\ IF f.name \in DOMAIN k
             THEN /\ s.ret = k[f.name]
                  /\ DOMAIN s.kwarguments_after = (DOMAIN k) \ {f.name}
                  /\ \A n \in DOMAIN s.kwarguments_after : s.kwarguments_after[n] = k[n]
                  /\ s.arguments_after = a
             ELSE IF Len(a) > f.index /\ a[f.index + 1] # None
             THEN /\ s.ret = a[f.index + 1]
                  /\ Len(s.arguments_after) = Len(a) - 1
                  /\ \A j \in DOMAIN s.arguments_after :
                        s.arguments_after[j] = a[IF j <= f.index THEN j ELSE j + 1]
                  /\ s.kwarguments_after = k
             ELSE /\ s.ret = None
                  /\ s.arguments_after = a
                  /\ s.kwarguments_after = k

(* All three cases in one call: the label taken from position 0, the key   *)
(* from its keyword, and no callback given.                                *)
C29_Witness ==
  /\ probe.phase = "extracting"
  /\ Len(probe.steps) = 3
  /\ probe.steps[1].ret = "A" /\ Len(probe.steps[1].arguments_after) = Len(probe.steps[1].arguments) - 1
  /\ "key" \in DOMAIN probe.steps[2].kwarguments /\ probe.steps[2].ret = "k"
  /\ "key" \notin DOMAIN probe.steps[2].kwarguments_after
  /\ probe.steps[3].ret = None /\ probe.steps[3].arguments_after = probe.steps[3].arguments
  /\ probe.steps[3].attribute.name \notin DOMAIN probe.steps[3].kwarguments

(* C30: a stop_tracking step puts every recorded original back and leaves  *)
(* the record empty; on a controller whose record is empty (never started, *)
(* or already stopped) it changes no namespace attribute and raises        *)
(* nothing.                                                                *)
C30_StopUninstalled ==
  [][\A c \in Controllers :
        StopTracking(c) =>
          /\ analytics'[c]._original_mappings = EmptyDict
          /\ \A t \in DOMAIN analytics[c]._original_mappings :
                st'[t[1]][t[2]] = analytics[c]._original_mappings[t]
          /\ analytics[c]._original_mappings = EmptyDict =>
                st' = st /\ raised' = None]_vars

(* A controller has stopped with an empty record while the first function  *)
(* the installation loop visits is another controller's interceptor, which *)
(* is still in place, next to host functions.                              *)
C30_Witness ==
  /\ phase["c2"].at = "restored"
  /\ analytics["c2"]._original_mappings = EmptyDict
  /\ calls["c2"][Len(calls["c2"])].raised = "TypeError"
  /\ st[Containers[1]][MAPPINGS[1].st_widget_name].owners = <<"c1">>
  /\ st[Containers[2]][MAPPINGS[1].st_widget_name].owners = <<>>
  /\ raised = None

=============================================================================
